---------------------------- MODULE Spec2Model ----------------------------
(***************************************************************************)
(* A model of the document chunking and relevance-ranking engine           *)
(* (server/utils/chunking.py, class DocumentChunker).                      *)
(*                                                                         *)
(* A text is a sequence of one-character strings.  One DocumentChunker     *)
(* instance (self) is shared by the calling threads; every thread has its  *)
(* own locals (th[t]) and a position (th[t].pc) in the method it runs.     *)
(* Python positions are 0-based; the helpers below keep Python's indices   *)
(* and convert to the 1-based sequences of TLA+ inside.                    *)
(***************************************************************************)
EXTENDS Integers, Sequences, FiniteSets, TLC

(***************************************************************************)
(* Bounds of the model.                                                    *)
(***************************************************************************)
MaxLen == 5
MaxChunkSize == 4
MaxOverlap == 2
MaxSentences == 3
MaxK == 2
MaxTarget == 2
MaxRows == 3
MaxTopK == 3
MaxWindowLen == 12
MaxPieces == 3

\* line 150: max(1000, estimated_chunk_size)
MinSummaryChunkSize == 1000

Threads == {1, 2}

(***************************************************************************)
(* Python string helpers.                                                  *)
(***************************************************************************)
Whitespace == {" ", "\n", "\t"}
Terminators == {".", "!", "?"}

IsSpace(c) == c \in Whitespace

Max(a, b) == IF a >= b THEN a ELSE b
Min(a, b) == IF a <= b THEN a ELSE b

\* the greatest element, found as the least of the negated ones
SetMax(S) == 0 - (CHOOSE x \in {0 - y : y \in S} : \A z \in S : x <= 0 - z)
SetMin(S) == CHOOSE x \in S : \A y \in S : x <= y

\* s[a:b] for 0 <= a, 0 <= b
Slice(s, a, b) == SubSeq(s, a + 1, Min(b, Len(s)))

\* s.strip()
Strip(s) ==
    LET keep == {i \in 1..Len(s) : ~IsSpace(s[i])}
    IN  IF keep = {} THEN <<>> ELSE SubSeq(s, SetMin(keep), SetMax(keep))

\* s.strip(chars)
StripChars(s, chars) ==
    LET keep == {i \in 1..Len(s) : s[i] \notin chars}
    IN  IF keep = {} THEN <<>> ELSE SubSeq(s, SetMin(keep), SetMax(keep))

\* s.rfind(c, start, end): the highest 0-based index in [start, end), or -1
RFind(s, c, start, end) ==
    LET hits == {i \in start..(Min(end, Len(s)) - 1) : s[i + 1] = c}
    IN  IF hits = {} THEN -1 ELSE SetMax(hits)

\* the first 1-based position >= i that holds no whitespace (Len(s)+1 if none)
RunEnd(s, i) ==
    LET stops == {j \in i..Len(s) : ~IsSpace(s[j])}
    IN  IF stops = {} THEN Len(s) + 1 ELSE SetMin(stops)

\* the first 1-based position >= i where whitespace follows a terminator
\* (0 if there is none)
NextCut(s, i) ==
    LET cuts == {j \in i..Len(s) :
                    j > 1 /\ IsSpace(s[j]) /\ s[j - 1] \in Terminators}
    IN  IF cuts = {} THEN 0 ELSE SetMin(cuts)

\* re.split(r'(?<=[.!?])\s+', s) from 1-based position i, one piece at a time
RECURSIVE SplitFrom(_, _)
SplitFrom(s, i) ==
    LET cut == NextCut(s, i) IN
    IF cut = 0 THEN <<SubSeq(s, i, Len(s))>>
    ELSE <<SubSeq(s, i, cut - 1)>> \o SplitFrom(s, RunEnd(s, cut))

SplitSentences(s) == SplitFrom(s, 1)

\* "".join(parts), sep between the parts
RECURSIVE Join(_, _)
Join(parts, sep) ==
    IF parts = <<>> THEN <<>>
    ELSE IF Len(parts) = 1 THEN parts[1]
    ELSE parts[1] \o sep \o Join(Tail(parts), sep)

\* [x for x in parts if keep(x)] with keep = "x.strip() is not empty", stripped
StripNonEmpty(parts) ==
    LET stripped == [i \in 1..Len(parts) |-> Strip(parts[i])]
    IN  SelectSeq(stripped, LAMBDA x : x # <<>>)

\* the first 1-based position >= i that holds whitespace (Len(s)+1 if none)
WordEnd(s, i) ==
    LET stops == {j \in i..Len(s) : IsSpace(s[j])}
    IN  IF stops = {} THEN Len(s) + 1 ELSE SetMin(stops)

\* str.split(): the maximal runs of non-whitespace, from 1-based position i,
\* one word at a time
RECURSIVE SplitWordsFrom(_, _)
SplitWordsFrom(s, i) ==
    LET b == RunEnd(s, i) IN
    IF b > Len(s) THEN <<>>
    ELSE <<SubSeq(s, b, WordEnd(s, b) - 1)>>
             \o SplitWordsFrom(s, WordEnd(s, b))

SplitWords(s) == SplitWordsFrom(s, 1)

\* str.split(c): the pieces between the occurrences of c, empty ones kept,
\* from 1-based position i, one piece at a time
RECURSIVE SplitOnFrom(_, _, _)
SplitOnFrom(s, c, i) ==
    LET hits == {j \in i..Len(s) : s[j] = c} IN
    IF hits = {} THEN <<SubSeq(s, i, Len(s))>>
    ELSE <<SubSeq(s, i, SetMin(hits) - 1)>>
             \o SplitOnFrom(s, c, SetMin(hits) + 1)

SplitOn(s, c) == SplitOnFrom(s, c, 1)

\* p in s
Contains(s, p) ==
    \E i \in 0..(Len(s) - Len(p)) : SubSeq(s, i + 1, i + Len(p)) = p

Uppers ==
    <<"A", "B", "C", "D", "E", "F", "G", "H", "I", "J", "K", "L", "M",
      "N", "O", "P", "Q", "R", "S", "T", "U", "V", "W", "X", "Y", "Z">>
Lowers ==
    <<"a", "b", "c", "d", "e", "f", "g", "h", "i", "j", "k", "l", "m",
      "n", "o", "p", "q", "r", "s", "t", "u", "v", "w", "x", "y", "z">>

LowerChar(c) ==
    IF \E i \in 1..Len(Uppers) : Uppers[i] = c
    THEN Lowers[CHOOSE i \in 1..Len(Uppers) : Uppers[i] = c]
    ELSE c

\* s.lower()
Lower(s) == [i \in 1..Len(s) |-> LowerChar(s[i])]

ToSet(seq) == {seq[i] : i \in 1..Len(seq)}

\* exact fractions for the scores
Rat(n, d) == [num |-> n, den |-> d]
RatAdd(a, b) == Rat(a.num * b.den + b.num * a.den, a.den * b.den)
RatEq(a, b) == a.num * b.den = b.num * a.den
RatLess(a, b) == a.num * b.den < b.num * a.den

(***************************************************************************)
(* DocumentChunker: the pure parts.                                        *)
(***************************************************************************)

\* line 94: last_space != -1 and last_space > start + (max_chunk_size * 0.7)
UseWordBoundary(last_space, start, M) ==
    last_space # -1 /\ 10 * last_space > 10 * start + 7 * M

\* lines 88-95: the end of the window that starts at start
WindowEnd(text, start, M) ==
    LET end == start + M
        last_space == RFind(text, " ", start, end)
    IN  IF end < Len(text) /\ UseWordBoundary(last_space, start, M)
        THEN last_space ELSE end

\* line 101 without the max: the window start is not forced forward
NextStartUnguarded(start, end, O) == end - O

\* line 101 stepping over the character at the cut
NextStartSkipsCut(start, end, O) == Max(start + 1, end - O + 1)

\* line 101
NextStart(start, end, O) == Max(start + 1, end - O)

\* line 56 with the chunk kept one character short of max_chunk_size
FitsBelow(potential_chunk, M) == Len(potential_chunk) < M

\* line 56
Fits(potential_chunk, M) == Len(potential_chunk) <= M

\* the whole previous chunk as the overlap
OverlapOfWhole(prev_chunk, O) == prev_chunk

\* lines 117-118, 123 without the cut at the last space of lines 119-121
OverlapOfUntrimmed(prev_chunk, O) ==
    IF Len(prev_chunk) > O
    THEN Slice(prev_chunk, Len(prev_chunk) - O, Len(prev_chunk))
    ELSE prev_chunk

\* the overlap taken from the start of the previous chunk
OverlapOfHead(prev_chunk, O) == Slice(prev_chunk, 0, O)

\* lines 117-123: the overlap taken from the previous chunk
OverlapOf(prev_chunk, O) ==
    IF Len(prev_chunk) > O
    THEN LET overlap == Slice(prev_chunk, Len(prev_chunk) - O, Len(prev_chunk))
             last_space == RFind(overlap, " ", 0, Len(overlap))
         IN  IF last_space # -1
             THEN Slice(overlap, last_space + 1, Len(overlap))
             ELSE overlap
    ELSE prev_chunk

\* lines 105-129
AddOverlap(chunks, O) ==
    IF Len(chunks) <= 1 \/ O <= 0 THEN chunks
    ELSE [i \in 1..Len(chunks) |->
            IF i = 1 THEN chunks[1]
            ELSE OverlapOf(chunks[i - 1], O) \o <<" ">> \o chunks[i]]

\* lines 82-103 as a function: the chunks of text from window start on
RECURSIVE CharChunks(_, _, _, _, _)
CharChunks(text, start, chunks, M, O) ==
    IF start < Len(text)
    THEN LET end == WindowEnd(text, start, M)
             chunk == Strip(Slice(text, start, end))
         IN  CharChunks(text, NextStart(start, end, O),
                        IF chunk # <<>> THEN Append(chunks, chunk) ELSE chunks,
                        M, O)
    ELSE chunks

\* lines 82-103
ChunkByCharacters(text, M, O) == CharChunks(text, 0, <<>>, M, O)

\* lines 49-71 as a function: the chunks once sentences i.. are consumed
RECURSIVE SentenceChunks(_, _, _, _, _, _)
SentenceChunks(sentences, i, chunks, current_chunk, M, O) ==
    IF i > Len(sentences)
    THEN IF Strip(current_chunk) # <<>>
         THEN Append(chunks, Strip(current_chunk)) ELSE chunks
    ELSE LET sentence == Strip(sentences[i])
             potential_chunk ==
                 current_chunk
                 \o (IF current_chunk # <<>> THEN <<" ">> ELSE <<>>)
                 \o sentence
             flushed == IF current_chunk # <<>>
                        THEN Append(chunks, Strip(current_chunk)) ELSE chunks
             long == ChunkByCharacters(sentence, M, O)
         IN  IF sentence = <<>>
             THEN SentenceChunks(sentences, i + 1, chunks, current_chunk, M, O)
             ELSE IF Fits(potential_chunk, M)
             THEN SentenceChunks(sentences, i + 1, chunks, potential_chunk, M, O)
             ELSE IF Len(sentence) > M
             THEN SentenceChunks(sentences, i + 1,
                                 flushed \o SubSeq(long, 1, Len(long) - 1),
                                 IF long # <<>> THEN long[Len(long)] ELSE <<>>,
                                 M, O)
             ELSE SentenceChunks(sentences, i + 1, flushed, sentence, M, O)

\* lines 41-77
ChunkBySentences(text, M, O) ==
    LET chunks == SentenceChunks(SplitSentences(text), 1, <<>>, <<>>, M, O)
    IN  IF O > 0 THEN AddOverlap(chunks, O) ELSE chunks

\* lines 23-39 as a function of the text and the chunker's three fields
chunk_document(text, c) ==
    IF Len(text) <= c.max_chunk_size THEN <<text>>
    ELSE IF c.preserve_sentences
         THEN ChunkBySentences(text, c.max_chunk_size, c.overlap_size)
         ELSE ChunkByCharacters(text, c.max_chunk_size, c.overlap_size)

\* lines 251-262
recombine_chunks(chunks, separator) == Join(StripNonEmpty(chunks), separator)

\* lines 193, 199: the characters stripped from the ends of a word
Punctuation == {".", ",", "!", "?", ";", ":", "(", ")", "[", "]", "{", "}"}

\* lines 193-195
QueryWords(query) ==
    {StripChars(Lower(w), Punctuation) :
        w \in {x \in ToSet(SplitWords(query)) : Len(x) > 2}}

\* lines 199-200
ChunkWords(chunk) ==
    {StripChars(Lower(w), Punctuation) : w \in ToSet(SplitWords(chunk))}

\* lines 203-204
BaseScore(query, chunk) ==
    Rat(Cardinality(QueryWords(query) \cap ChunkWords(chunk)),
        Max(Cardinality(QueryWords(query)), 1))

\* line 207 with >= for >
LongQueryFrom10(query) == Len(Strip(query)) >= 10

\* line 207
LongQuery(query) == Len(Strip(query)) > 10

\* line 212 adding 0.2 for every part that occurs, not once
SubPhraseBonusStacked(query_lower, chunk_lower) ==
    LET parts == SplitOn(query_lower, ".")
    IN  Rat(2 * Cardinality({i \in 1..Len(parts) :
                                Len(Strip(parts[i])) > 5
                                /\ Contains(chunk_lower, parts[i])}), 10)

\* line 212: some period-delimited part of the query, longer than 5 characters
\* when trimmed, occurs in the chunk
SubPhraseBonus(query_lower, chunk_lower) ==
    IF \E phrase \in ToSet(SplitOn(query_lower, ".")) :
           Len(Strip(phrase)) > 5 /\ Contains(chunk_lower, phrase)
    THEN Rat(2, 10) ELSE Rat(0, 10)

\* lines 207-213
PhraseBonus(query, chunk) ==
    IF LongQuery(query)
    THEN IF Contains(Lower(chunk), Lower(query))
         THEN Rat(5, 10)
         ELSE SubPhraseBonus(Lower(query), Lower(chunk))
    ELSE Rat(0, 10)

\* lines 198-215: the (score, i, chunk) tuples, i from 0
ChunkScores(chunks, query) ==
    [j \in 1..Len(chunks) |->
        <<RatAdd(BaseScore(query, chunks[j]), PhraseBonus(query, chunks[j])),
          j - 1, chunks[j]>>]

\* line 217 with ties going to the later chunk
HigherOrEqualScore(x, y) == ~RatLess(x[1], y[1])

\* line 217: key = score, reverse=True (x sorts before y)
HigherScore(x, y) == RatLess(y[1], x[1])

\* list.sort is stable: x, the last of the elements seen, goes behind every
\* element that does not sort after it
RECURSIVE InsertByScore(_, _)
InsertByScore(sorted, x) ==
    IF sorted = <<>> THEN <<x>>
    ELSE IF HigherScore(x, Head(sorted)) THEN <<x>> \o sorted
    ELSE <<Head(sorted)>> \o InsertByScore(Tail(sorted), x)

\* line 217: chunk_scores.sort(key=score, reverse=True)
RECURSIVE RankByScore(_)
RankByScore(chunk_scores) ==
    IF chunk_scores = <<>> THEN <<>>
    ELSE InsertByScore(
             RankByScore(SubSeq(chunk_scores, 1, Len(chunk_scores) - 1)),
             chunk_scores[Len(chunk_scores)])

\* line 218 taking one chunk too many
TopKPlusOne(ranked, max_chunks) ==
    SubSeq(ranked, 1, Min(max_chunks + 1, Len(ranked)))

\* line 218: chunk_scores[:max_chunks], for max_chunks >= 0
TopK(ranked, max_chunks) == SubSeq(ranked, 1, Min(max_chunks, Len(ranked)))

\* line 218 without the sort: the chunks stay in rank order
KeepRankOrder(selected) == selected

RECURSIVE InsertByIndex(_, _)
InsertByIndex(sorted, x) ==
    IF sorted = <<>> THEN <<x>>
    ELSE IF x[2] < Head(sorted)[2] THEN <<x>> \o sorted
    ELSE <<Head(sorted)>> \o InsertByIndex(Tail(sorted), x)

\* line 218: sorted(..., key=index)
RECURSIVE InDocumentOrder(_)
InDocumentOrder(selected) ==
    IF selected = <<>> THEN <<>>
    ELSE InsertByIndex(InDocumentOrder(SubSeq(selected, 1, Len(selected) - 1)),
                       selected[Len(selected)])

\* lines 217-218: selected
Selected(chunk_scores, max_chunks) ==
    InDocumentOrder(TopK(RankByScore(chunk_scores), max_chunks))

\* line 219
ChunksOf(selected) == [j \in 1..Len(selected) |-> selected[j][3]]

\* line 189
FewChunks(chunks, max_chunks) == Len(chunks) <= max_chunks

\* lines 157-167: one pass over the chunks, merging neighbours that fit, from
\* 1-based position i
RECURSIVE MergeFrom(_, _, _)
MergeFrom(chunks, i, M) ==
    IF i > Len(chunks) THEN <<>>
    ELSE IF i + 1 <= Len(chunks)
            /\ Len(chunks[i] \o <<" ">> \o chunks[i + 1]) <= M
         THEN <<chunks[i] \o <<" ">> \o chunks[i + 1]>> \o MergeFrom(chunks, i + 2, M)
         ELSE <<chunks[i]>> \o MergeFrom(chunks, i + 1, M)

MergePass(chunks, M) == MergeFrom(chunks, 1, M)

\* line 156: len(chunks) > target_chunks * 1.5
TooManyChunks(chunks, target_chunks) == 2 * Len(chunks) > 3 * target_chunks

\* line 146
EstimatedChunkSize(text, target_chunks, M) == Min(M, Len(text) \div target_chunks)

\* line 150
TemporaryChunkSize(estimated) == Max(MinSummaryChunkSize, estimated)

\* lines 155-169 as a function
RECURSIVE MergeUntilFew(_, _, _)
MergeUntilFew(chunks, target_chunks, M) ==
    IF TooManyChunks(chunks, target_chunks)
    THEN MergeUntilFew(MergePass(chunks, M), target_chunks, M)
    ELSE chunks

\* lines 142-173 as a function of the arguments and the chunker's fields
chunk_for_summarization(text, target_chunks, c) ==
    IF Len(text) <= c.max_chunk_size THEN <<text>>
    ELSE LET M == TemporaryChunkSize(
                      EstimatedChunkSize(text, target_chunks, c.max_chunk_size))
         IN  MergeUntilFew(chunk_document(text, [c EXCEPT !.max_chunk_size = M]),
                           target_chunks, M)

\* lines 187-219 as a function of the arguments and the chunker's fields
find_relevant_chunks(text, query, max_chunks, c) ==
    LET chunks == chunk_document(text, c)
    IN  IF FewChunks(chunks, max_chunks) THEN chunks
        ELSE ChunksOf(Selected(ChunkScores(chunks, query), max_chunks))

\* line 278: the tokens of one chunk, 1 token for 4 characters
TokensOf(chunk) == Len(chunk) \div 4

\* the tokens of the chunks' characters taken together
TotalTokensOfWhole(chunks) == Len(Join(chunks, <<>>)) \div 4

\* line 278: sum(len(chunk) // 4 for chunk in chunks)
RECURSIVE TotalTokens(_)
TotalTokens(chunks) ==
    IF chunks = <<>> THEN 0
    ELSE TokensOf(Head(chunks)) + TotalTokens(Tail(chunks))

\* line 264: the default of cost_per_token, 0.0001
DefaultCostPerToken == Rat(1, 10000)

\* lines 280-286: the dict estimate_processing_cost returns
CostOf(chunks, cost_per_token) ==
    [total_chunks |-> Len(chunks),
     estimated_tokens |-> TotalTokens(chunks),
     estimated_cost_usd |-> Rat(TotalTokens(chunks) * cost_per_token.num,
                                cost_per_token.den),
     processing_time_estimate_seconds |-> Len(chunks) * 2,
     chunk_sizes |-> [i \in 1..Len(chunks) |-> Len(chunks[i])]]

\* lines 264-286 as a function
estimate_processing_cost(text, cost_per_token, c) ==
    CostOf(chunk_document(text, c), cost_per_token)

\* no estimate yet
NoCost == CostOf(<<>>, Rat(0, 1))

(***************************************************************************)
(* get_chunk_metadata.                                                     *)
(***************************************************************************)

\* s.replace(old, new) for single characters
Replace(s, old, new) == [i \in 1..Len(s) |-> IF s[i] = old THEN new ELSE s[i]]

\* line 234
WordCount(chunk) == Len(SplitWords(chunk))

\* line 238: the pieces between the terminators that are not blank
SentenceCount(chunk) ==
    LET pieces == SplitOn(Replace(Replace(chunk, "!", "."), "?", "."), ".")
    IN  Len(SelectSeq(pieces, LAMBDA s : Strip(s) # <<>>))

\* line 246: the length of a preview
PreviewLength == 100

\* line 246
Preview(chunk) ==
    Slice(chunk, 0, PreviewLength)
        \o (IF Len(chunk) > PreviewLength THEN <<".", ".", ".">> ELSE <<>>)

\* lines 240-247: the dict of the chunk at index i
MetadataOf(i, chunk) ==
    [chunk_index |-> i,
     character_count |-> Len(chunk),
     word_count |-> WordCount(chunk),
     sentence_count |-> SentenceCount(chunk),
     avg_words_per_sentence |->
         Rat(WordCount(chunk), Max(SentenceCount(chunk), 1)),
     preview |-> Preview(chunk)]

\* lines 221-249 as a function
get_chunk_metadata(chunks) ==
    [j \in 1..Len(chunks) |-> MetadataOf(j - 1, chunks[j])]


(***************************************************************************)
(* The keyword retriever, get_relevant_constitutional_articles, and the    *)
(* SQL statement it sends to SQLite.                                       *)
(***************************************************************************)

\* line 31
stop_words ==
    {<<"w", "h", "a", "t">>,
     <<"i", "s">>,
     <<"t", "h", "e">>,
     <<"o", "f">>,
     <<"t", "o">>,
     <<"a">>,
     <<"a", "n", "d">>,
     <<"i", "n">>,
     <<"o", "r">>,
     <<"f", "o", "r">>,
     <<"w", "i", "t", "h">>,
     <<"f", "r", "o", "m">>,
     <<"a", "s">>,
     <<"b", "y">>}

\* line 32 without the test of the word's length
IsKeywordAnyLength(word) == word \notin stop_words

\* line 32: the condition of the comprehension
IsKeyword(word) == word \notin stop_words /\ Len(word) > 2

\* line 32: a list, in the order of the query, repeated words repeated
Keywords(query) == SelectSeq(SplitWords(Lower(query)), IsKeyword)

\* lines 44, 51: f'%{keyword}%'
PatternOf(keyword) == <<"%">> \o keyword \o <<"%">>

\* characters to a string, as an f-string puts them into the text
RECURSIVE StrOf(_)
StrOf(s) == IF s = <<>> THEN "" ELSE Head(s) \o StrOf(Tail(s))

\* line 43 with the keyword written into the statement
ConditionWithKeyword(keyword) ==
    "(LOWER(title) LIKE '%" \o StrOf(keyword)
        \o "%' OR LOWER(description) LIKE '%" \o StrOf(keyword) \o "%')"

\* line 43: the text appended for a keyword, the same for every keyword
ConditionFor(keyword) == "(LOWER(title) LIKE ? OR LOWER(description) LIKE ?)"

\* lines 49, 50
TitleScoreClause == " (CASE WHEN LOWER(title) LIKE ? THEN 1 ELSE 0 END)"
DescriptionScoreClause == " (CASE WHEN LOWER(description) LIKE ? THEN 1 ELSE 0 END)"

\* lines 40-43
Conditions(keywords) ==
    [i \in 1..Len(keywords) |-> ConditionFor(keywords[i])]

\* lines 47-50: two clauses for each keyword
ScoreClauses(keywords) ==
    [i \in 1..(2 * Len(keywords)) |->
        IF i % 2 = 1 THEN TitleScoreClause ELSE DescriptionScoreClause]

\* lines 44, 51, 61: the patterns of the conditions, the patterns of the score
\* clauses, then top_k
Params(keywords, top_k) ==
    LET n == Len(keywords) IN
    [i \in 1..(4 * n + 1) |->
        IF i = 4 * n + 1 THEN top_k
        ELSE PatternOf(keywords[(((i - 1) % (2 * n)) \div 2) + 1])]

\* " + ".join(...), " OR ".join(...)
RECURSIVE JoinStr(_, _)
JoinStr(parts, sep) ==
    IF parts = <<>> THEN ""
    ELSE IF Len(parts) = 1 THEN parts[1]
    ELSE parts[1] \o sep \o JoinStr(Tail(parts), sep)

\* lines 53-60: the statement's text (its line breaks and indentation, the
\* same in every statement, written as single spaces)
SqlQuery(score_clauses, conditions) ==
    "SELECT \"section\", \"title\", \"description\", ("
        \o JoinStr(score_clauses, " + ")
        \o ") as score FROM CPC WHERE " \o JoinStr(conditions, " OR ")
        \o " ORDER BY score DESC LIMIT ?"

\* SQLite's s LIKE p: % stands for any characters, _ for any one character,
\* ASCII letters match without regard to case
RECURSIVE Like(_, _)
Like(s, p) ==
    IF p = <<>> THEN s = <<>>
    ELSE IF Head(p) = "%"
    THEN Like(s, Tail(p)) \/ (s # <<>> /\ Like(Tail(s), p))
    ELSE /\ s # <<>>
         /\ Head(p) = "_" \/ LowerChar(Head(p)) = LowerChar(Head(s))
         /\ Like(Tail(s), Tail(p))

\* SQLite's LOWER(): the ASCII letters
SqlLower(s) == Lower(s)

\* the column a score clause of the statement reads
ColumnOf(row, clause) ==
    IF clause = TitleScoreClause THEN row.title ELSE row.description

\* the value of the statement's score expression for a row; the statement's
\* placeholders take the parameters in the order of the text, the score
\* clauses first
RECURSIVE RowScoreFrom(_, _, _, _)
RowScoreFrom(row, score_clauses, params, i) ==
    IF i > Len(score_clauses) THEN 0
    ELSE (IF Like(SqlLower(ColumnOf(row, score_clauses[i])), params[i])
          THEN 1 ELSE 0)
         + RowScoreFrom(row, score_clauses, params, i + 1)

RowScore(row, score_clauses, params) ==
    RowScoreFrom(row, score_clauses, params, 1)

\* the statement's WHERE: its placeholders follow those of the score clauses
RowMatches(row, score_clauses, conditions, params) ==
    \E c \in 1..Len(conditions) :
        LET base == Len(score_clauses) + 2 * (c - 1)
        IN  \/ Like(SqlLower(row.title), params[base + 1])
            \/ Like(SqlLower(row.description), params[base + 2])

\* the rows of the SELECT before ORDER BY and LIMIT, by position in the table
SelectedRows(table, score_clauses, conditions, params) ==
    {[pos |-> i, section |-> table[i].section, title |-> table[i].title,
      description |-> table[i].description,
      score |-> RowScore(table[i], score_clauses, params)] :
        i \in {j \in 1..Len(table) :
                  RowMatches(table[j], score_clauses, conditions, params)}}

\* ORDER BY score with the lowest score first
ScoreOrderedAscending(rows) ==
    \A i \in 1..(Len(rows) - 1) : rows[i].score <= rows[i + 1].score

\* line 58: ORDER BY score DESC
ScoreOrdered(rows) ==
    \A i \in 1..(Len(rows) - 1) : rows[i].score >= rows[i + 1].score

\* the orders ORDER BY score DESC allows: SQL leaves the order of rows of equal
\* score open
Orderings(S) ==
    {rows \in [1..Cardinality(S) -> S] :
        /\ \A i, j \in 1..Cardinality(S) : rows[i] = rows[j] => i = j
        /\ ScoreOrdered(rows)}

\* line 59: LIMIT, a negative limit being no limit
Limit(rows, k) ==
    IF k < 0 THEN rows ELSE SubSeq(rows, 1, Min(k, Len(rows)))

\* line 63-64: what execute and fetchall can give
QueryResults(table, score_clauses, conditions, params) ==
    {Limit(rows, params[Len(params)]) :
        rows \in Orderings(SelectedRows(table, score_clauses, conditions,
                                        params))}

\* lines 72-79
DocumentOf(row) ==
    [page_content |-> <<"Section: ", row.section, "\nTitle: ", row.title,
                        "\nDescription: ", row.description>>,
     metadata |-> [source |-> "CPC Database", section |-> row.section,
                   title |-> row.title]]

\* lines 70-79
Sections(results) == [i \in 1..Len(results) |-> DocumentOf(results[i])]

(***************************************************************************)
(* State.                                                                  *)
(***************************************************************************)
VARIABLES
    self,       \* the shared DocumentChunker: its three fields
    config,     \* the constructor's arguments (never changes)
    th          \* th[t]: the call thread t runs, its locals and position

vars == <<self, config, th>>

\* the database at db_path: the rows of its table CPC in storage order, and
\* the step of the call, if any, at which it fails; th[t].conn is the
\* connection of line 23: "none" before it is opened, "open" until close() is
\* called on it (line 66), then "closed"
NoStore == [table |-> <<>>, fails |-> "nothing"]

Idle ==
    [pc |-> "idle", op |-> "none", text |-> <<>>,
     sentences |-> <<>>, si |-> 0, chunks |-> <<>>, current_chunk |-> <<>>,
     unoverlapped |-> <<>>,
     ctext |-> <<>>, start |-> 0, end |-> 0, cchunks |-> <<>>, ret |-> "none",
     iters |-> 0,
     query |-> <<>>, max_chunks |-> 0, chunk_scores |-> <<>>,
     selected |-> <<>>,
     target_chunks |-> 0, estimated_chunk_size |-> 0, original_chunk_size |-> 0,
     cost_per_token |-> Rat(0, 1), cost |-> NoCost,
     db |-> NoStore, top_k |-> 0, keywords |-> <<>>, conditions |-> <<>>,
     score_clauses |-> <<>>, params |-> <<>>, sql_query |-> "",
     results |-> <<>>, raised |-> FALSE, conn |-> "none",
     i |-> 0, metadata |-> <<>>,
     result |-> <<>>]

Configs(Ms, Os, Ps) ==
    [max_chunk_size : Ms, overlap_size : Os, preserve_sentences : Ps]

\* lines 7-21: __init__
InitWith(cfgs) ==
    /\ config \in cfgs
    /\ self = config
    /\ th = [t \in Threads |-> Idle]

Upd(t, r) == th' = [th EXCEPT ![t] = r]

(***************************************************************************)
(* chunk_document and the two chunking loops, one action per step.         *)
(***************************************************************************)

\* chunk_document's return to the method that called it
DocReturn(r, chunks) ==
    IF r.op = "chunk_document"
    THEN [r EXCEPT !.pc = "done", !.chunks = chunks, !.result = chunks]
    ELSE [r EXCEPT !.pc = "after_doc", !.chunks = chunks]

\* line 33: the fast path's condition
FastPath(text, M) == Len(text) <= M

\* line 34 returning the trimmed text, as the other paths do
FastResultTrimmed(text) == <<Strip(text)>>

\* line 34: what the fast path returns
FastResult(text) == <<text>>

\* lines 33-39
DocEntry(t) ==
    LET r == th[t] IN
    /\ r.pc = "doc_entry"
    /\ IF FastPath(r.text, self.max_chunk_size)
       THEN Upd(t, DocReturn(r, FastResult(r.text)))
       ELSE IF self.preserve_sentences
            THEN Upd(t, [r EXCEPT !.pc = "sent_loop",
                                  !.sentences = SplitSentences(r.text),
                                  !.si = 1, !.chunks = <<>>,
                                  !.current_chunk = <<>>])
            ELSE Upd(t, [r EXCEPT !.pc = "char_loop", !.ctext = r.text,
                                  !.start = 0, !.end = 0, !.cchunks = <<>>,
                                  !.ret = "doc", !.iters = 0])
    /\ UNCHANGED <<self, config>>

\* lines 49-67: one sentence of the for loop
SentStep(t) ==
    LET r == th[t]
        M == self.max_chunk_size
        sentence == Strip(r.sentences[r.si])
        potential_chunk == r.current_chunk
                           \o (IF r.current_chunk # <<>> THEN <<" ">> ELSE <<>>)
                           \o sentence
        flushed == IF r.current_chunk # <<>>
                   THEN Append(r.chunks, Strip(r.current_chunk))
                   ELSE r.chunks
    IN
    /\ r.pc = "sent_loop"
    /\ r.si <= Len(r.sentences)
    /\ IF sentence = <<>>
       THEN Upd(t, [r EXCEPT !.si = @ + 1])
       ELSE IF Fits(potential_chunk, M)
       THEN Upd(t, [r EXCEPT !.si = @ + 1, !.current_chunk = potential_chunk])
       ELSE IF Len(sentence) > M
       THEN Upd(t, [r EXCEPT !.pc = "char_loop", !.chunks = flushed,
                             !.ctext = sentence, !.start = 0, !.end = 0,
                             !.cchunks = <<>>, !.ret = "sent", !.iters = 0])
       ELSE Upd(t, [r EXCEPT !.si = @ + 1, !.chunks = flushed,
                             !.current_chunk = sentence])
    /\ UNCHANGED <<self, config>>

\* lines 69-77: after the for loop; unoverlapped is the list handed to
\* _add_overlap or, with overlap_size 0, returned as it is
SentFinish(t) ==
    LET r == th[t]
        final == IF Strip(r.current_chunk) # <<>>
                 THEN Append(r.chunks, Strip(r.current_chunk))
                 ELSE r.chunks
        out == IF self.overlap_size > 0
               THEN AddOverlap(final, self.overlap_size)
               ELSE final
    IN
    /\ r.pc = "sent_loop"
    /\ r.si > Len(r.sentences)
    /\ Upd(t, DocReturn([r EXCEPT !.unoverlapped = final], out))
    /\ UNCHANGED <<self, config>>

\* lines 87-101: one iteration of the while loop
CharStep(t) ==
    LET r == th[t]
        M == self.max_chunk_size
        end == WindowEnd(r.ctext, r.start, M)
        chunk == Strip(Slice(r.ctext, r.start, end))
    IN
    /\ r.pc = "char_loop"
    /\ r.start < Len(r.ctext)
    /\ Upd(t, [r EXCEPT !.cchunks = IF chunk # <<>> THEN Append(@, chunk) ELSE @,
                        !.start = NextStart(r.start, end, self.overlap_size),
                        !.end = end,
                        !.iters = @ + 1])
    /\ UNCHANGED <<self, config>>

\* line 103, and the caller's use of the returned list (lines 39, 63-65)
CharReturn(t) ==
    LET r == th[t]
        n == Len(r.cchunks)
    IN
    /\ r.pc = "char_loop"
    /\ r.start >= Len(r.ctext)
    /\ IF r.ret = "doc"
       THEN Upd(t, DocReturn(r, r.cchunks))
       ELSE Upd(t, [r EXCEPT !.pc = "sent_loop", !.si = @ + 1,
                             !.chunks = @ \o SubSeq(r.cchunks, 1, n - 1),
                             !.current_chunk = IF n > 0 THEN r.cchunks[n] ELSE <<>>])
    /\ UNCHANGED <<self, config>>

ChunkSteps(t) ==
    \/ DocEntry(t)
    \/ SentStep(t)
    \/ SentFinish(t)
    \/ CharStep(t)
    \/ CharReturn(t)

(***************************************************************************)
(* find_relevant_chunks.                                                   *)
(***************************************************************************)

\* lines 189-215: the fast path, or the scores of all chunks
RelScore(t) ==
    LET r == th[t] IN
    /\ r.pc = "after_doc"
    /\ r.op = "find_relevant_chunks"
    /\ IF FewChunks(r.chunks, r.max_chunks)
       THEN Upd(t, [r EXCEPT !.pc = "done", !.result = r.chunks])
       ELSE Upd(t, [r EXCEPT !.pc = "rel_scored",
                             !.chunk_scores = ChunkScores(r.chunks, r.query)])
    /\ UNCHANGED <<self, config>>

\* lines 217-219
RelSelect(t) ==
    LET r == th[t] IN
    /\ r.pc = "rel_scored"
    /\ Upd(t, [r EXCEPT !.pc = "done",
                        !.selected = Selected(r.chunk_scores, r.max_chunks),
                        !.result = ChunksOf(Selected(r.chunk_scores,
                                                     r.max_chunks))])
    /\ UNCHANGED <<self, config>>

RelSteps(t) ==
    \/ RelScore(t)
    \/ RelSelect(t)

(***************************************************************************)
(* chunk_for_summarization.                                                *)
(***************************************************************************)

\* lines 142-143
SummEntry(t) ==
    LET r == th[t] IN
    /\ r.pc = "summ_entry"
    /\ IF Len(r.text) <= self.max_chunk_size
       THEN Upd(t, [r EXCEPT !.pc = "done", !.result = <<r.text>>])
       ELSE Upd(t, [r EXCEPT !.pc = "summ_estimate"])
    /\ UNCHANGED <<self, config>>

\* line 146
SummEstimate(t) ==
    LET r == th[t] IN
    /\ r.pc = "summ_estimate"
    /\ Upd(t, [r EXCEPT !.pc = "summ_save",
                        !.estimated_chunk_size =
                            EstimatedChunkSize(r.text, r.target_chunks,
                                               self.max_chunk_size)])
    /\ UNCHANGED <<self, config>>

\* line 149
SummSave(t) ==
    LET r == th[t] IN
    /\ r.pc = "summ_save"
    /\ Upd(t, [r EXCEPT !.pc = "summ_adjust",
                        !.original_chunk_size = self.max_chunk_size])
    /\ UNCHANGED <<self, config>>

\* lines 150-153: the temporary chunk size, and the call of chunk_document
SummAdjust(t) ==
    LET r == th[t] IN
    /\ r.pc = "summ_adjust"
    /\ self' = [self EXCEPT !.max_chunk_size =
                                TemporaryChunkSize(r.estimated_chunk_size)]
    /\ Upd(t, [r EXCEPT !.pc = "doc_entry"])
    /\ UNCHANGED config

\* lines 156-167: one pass of the while loop
SummMerge(t) ==
    LET r == th[t] IN
    /\ r.pc = "after_doc"
    /\ r.op = "chunk_for_summarization"
    /\ TooManyChunks(r.chunks, r.target_chunks)
    /\ Upd(t, [r EXCEPT !.chunks = MergePass(r.chunks, self.max_chunk_size)])
    /\ UNCHANGED <<self, config>>

\* line 169: the loop has ended
SummReturn(t) ==
    LET r == th[t] IN
    /\ r.pc = "after_doc"
    /\ r.op = "chunk_for_summarization"
    /\ ~TooManyChunks(r.chunks, r.target_chunks)
    /\ Upd(t, [r EXCEPT !.pc = "summ_restore"])
    /\ UNCHANGED <<self, config>>

\* a finally block that leaves the chunker as the call made it
NotRestored(s, original_chunk_size) == s

\* line 173
Restored(s, original_chunk_size) ==
    [s EXCEPT !.max_chunk_size = original_chunk_size]

\* lines 171-173: finally, and the return
SummRestore(t) ==
    LET r == th[t] IN
    /\ r.pc = "summ_restore"
    /\ self' = Restored(self, r.original_chunk_size)
    /\ Upd(t, [r EXCEPT !.pc = "done", !.result = r.chunks])
    /\ UNCHANGED config

SummSteps(t) ==
    \/ SummEntry(t)
    \/ SummEstimate(t)
    \/ SummSave(t)
    \/ SummAdjust(t)
    \/ SummMerge(t)
    \/ SummReturn(t)
    \/ SummRestore(t)

(***************************************************************************)
(* estimate_processing_cost.                                               *)
(***************************************************************************)

\* lines 278-286, after chunk_document has returned at line 275
CostReturn(t) ==
    LET r == th[t] IN
    /\ r.pc = "after_doc"
    /\ r.op = "estimate_processing_cost"
    /\ Upd(t, [r EXCEPT !.pc = "done",
                        !.cost = CostOf(r.chunks, r.cost_per_token)])
    /\ UNCHANGED <<self, config>>

(***************************************************************************)
(* get_chunk_metadata, one action per chunk.                               *)
(***************************************************************************)

\* lines 233-247: one iteration of the loop over enumerate(chunks)
MetaStep(t) ==
    LET r == th[t] IN
    /\ r.pc = "meta_loop"
    /\ r.i < Len(r.chunks)
    /\ Upd(t, [r EXCEPT !.metadata =
                            Append(r.metadata, MetadataOf(r.i, r.chunks[r.i + 1])),
                        !.i = r.i + 1])
    /\ UNCHANGED <<self, config>>

\* line 249
MetaReturn(t) ==
    LET r == th[t] IN
    /\ r.pc = "meta_loop"
    /\ r.i >= Len(r.chunks)
    /\ Upd(t, [r EXCEPT !.pc = "done"])
    /\ UNCHANGED <<self, config>>

MetaSteps(t) ==
    \/ MetaStep(t)
    \/ MetaReturn(t)

(***************************************************************************)
(* get_relevant_constitutional_articles, one action per step.              *)
(***************************************************************************)

\* an error of the try block that leaves the function
Propagated(r) == [r EXCEPT !.pc = "done", !.raised = TRUE]

\* lines 83-88: both handlers log and return []
Caught(r) == [r EXCEPT !.pc = "done", !.result = <<>>]

\* lines 23-24
RtConnect(t) ==
    LET r == th[t] IN
    /\ r.pc = "rt_connect"
    /\ IF r.db.fails = "connect"
       THEN Upd(t, Caught(r))
       ELSE Upd(t, [r EXCEPT !.pc = "rt_keywords", !.conn = "open"])
    /\ UNCHANGED <<self, config>>

\* lines 31-36
RtKeywords(t) ==
    LET r == th[t] IN
    /\ r.pc = "rt_keywords"
    /\ IF Keywords(r.query) = <<>>
       THEN Upd(t, [r EXCEPT !.pc = "done", !.result = <<>>])
       ELSE Upd(t, [r EXCEPT !.pc = "rt_build",
                             !.keywords = Keywords(r.query)])
    /\ UNCHANGED <<self, config>>

\* lines 40-61
RtBuild(t) ==
    LET r == th[t] IN
    /\ r.pc = "rt_build"
    /\ Upd(t, [r EXCEPT !.pc = "rt_execute",
                        !.conditions = Conditions(r.keywords),
                        !.score_clauses = ScoreClauses(r.keywords),
                        !.params = Params(r.keywords, r.top_k),
                        !.sql_query = SqlQuery(ScoreClauses(r.keywords),
                                               Conditions(r.keywords))])
    /\ UNCHANGED <<self, config>>

\* line 63
RtExecute(t) ==
    LET r == th[t] IN
    /\ r.pc = "rt_execute"
    /\ IF r.db.fails = "execute"
       THEN Upd(t, Caught(r))
       ELSE Upd(t, [r EXCEPT !.pc = "rt_fetch"])
    /\ UNCHANGED <<self, config>>

\* lines 64-66
RtFetch(t) ==
    LET r == th[t] IN
    /\ r.pc = "rt_fetch"
    /\ IF r.db.fails = "fetch"
       THEN Upd(t, Caught(r))
       ELSE \E rows \in QueryResults(r.db.table, r.score_clauses,
                                     r.conditions, r.params) :
               Upd(t, [r EXCEPT !.pc = "rt_sections", !.results = rows,
                                !.conn = "closed"])
    /\ UNCHANGED <<self, config>>

\* lines 70-81
RtSections(t) ==
    LET r == th[t] IN
    /\ r.pc = "rt_sections"
    /\ Upd(t, [r EXCEPT !.pc = "done", !.result = Sections(r.results)])
    /\ UNCHANGED <<self, config>>

RtSteps(t) ==
    \/ RtConnect(t)
    \/ RtKeywords(t)
    \/ RtBuild(t)
    \/ RtExecute(t)
    \/ RtFetch(t)
    \/ RtSections(t)

(***************************************************************************)
(* Callers.                                                                *)
(***************************************************************************)
Alphabet == {"a", " ", ".", "\n"}

RECURSIVE TextsOfLen(_)
TextsOfLen(n) ==
    IF n = 0 THEN {<<>>}
    ELSE {Append(s, c) : s \in TextsOfLen(n - 1), c \in Alphabet}

Texts == UNION {TextsOfLen(n) : n \in 0..MaxLen}

\* a call of chunk_document(text)
CallChunkDocument(t, texts) ==
    /\ th[t].pc = "idle"
    /\ \E text \in texts :
          Upd(t, [th[t] EXCEPT !.pc = "doc_entry", !.op = "chunk_document",
                               !.text = text])
    /\ UNCHANGED <<self, config>>

Init ==
    InitWith(Configs(1..MaxChunkSize, 0..MaxOverlap, BOOLEAN))

Next ==
    \/ CallChunkDocument(1, Texts)
    \/ ChunkSteps(1)

Spec == Init /\ [][Next]_vars

\* texts of a's and spaces, longer than the window of WindowConfigs
WindowTexts ==
    UNION {[1..n -> {"a", " "}] : n \in 11..MaxWindowLen}

\* a chunker whose max_chunk_size has a whole number of characters as its 70%
WindowConfigs == Configs({10}, {0}, BOOLEAN)

InitWindow == InitWith(WindowConfigs)

NextWindow ==
    \/ CallChunkDocument(1, WindowTexts)
    \/ ChunkSteps(1)

SpecWindow == InitWindow /\ [][NextWindow]_vars

\* a call of estimate_processing_cost(text), cost_per_token left at its default
CallEstimate(t, texts) ==
    /\ th[t].pc = "idle"
    /\ \E text \in texts :
          Upd(t, [th[t] EXCEPT !.pc = "doc_entry",
                               !.op = "estimate_processing_cost",
                               !.text = text,
                               !.cost_per_token = DefaultCostPerToken])
    /\ UNCHANGED <<self, config>>

NextCost ==
    \/ CallEstimate(1, Texts)
    \/ ChunkSteps(1)
    \/ CostReturn(1)

SpecCost == Init /\ [][NextCost]_vars

(***************************************************************************)
(* The documents and queries of the relevance specification.               *)
(***************************************************************************)
\* "apple banana."
AppleBanana ==
    <<"a", "p", "p", "l", "e", " ", "b", "a", "n", "a", "n", "a", ".">>

\* "cherry date."
CherryDate ==
    <<"c", "h", "e", "r", "r", "y", " ", "d", "a", "t", "e", ".">>

\* "apple cherry."
AppleCherry ==
    <<"a", "p", "p", "l", "e", " ", "c", "h", "e", "r", "r", "y", ".">>

\* "Cherry banana."
CherryBanana ==
    <<"C", "h", "e", "r", "r", "y", " ", "b", "a", "n", "a", "n", "a", ".">>

\* "(fig) of."
Fig ==
    <<"(", "f", "i", "g", ")", " ", "o", "f", ".">>

\* in character mode with max_chunk_size 12: "apple banana", "cherry date", "apple cherry"
ScenarioC ==
    <<"a", "p", "p", "l", "e", " ", "b", "a", "n", "a", "n", "a", "\n",
      "c", "h", "e", "r", "r", "y", " ", "d", "a", "t", "e", "a",
      "p", "p", "l", "e", " ", "c", "h", "e", "r", "r", "y">>

\* "apple cherry"
QAppleCherry ==
    <<"a", "p", "p", "l", "e", " ", "c", "h", "e", "r", "r", "y">>

\* "banana.cherry"
QBananaCherry ==
    <<"b", "a", "n", "a", "n", "a", ".", "c", "h", "e", "r", "r", "y">>

\* "Apple FIG,"
QAppleFig ==
    <<"A", "p", "p", "l", "e", " ", "F", "I", "G", ",">>

\* "apple bana"
QAppleBana ==
    <<"a", "p", "p", "l", "e", " ", "b", "a", "n", "a">>

\* "of"
QOf ==
    <<"o", "f">>

RelPieces == {AppleBanana, AppleCherry, CherryBanana, Fig}

RelTexts ==
    {Join(ps, <<" ">>) :
        ps \in UNION {[1..n -> RelPieces] : n \in 1..MaxSentences}}
    \cup {ScenarioC}

RelQueries == {QAppleCherry, QBananaCherry, QAppleFig, QAppleBana, QOf}

RelConfigs ==
    {[max_chunk_size |-> 14, overlap_size |-> 0, preserve_sentences |-> TRUE],
     [max_chunk_size |-> 12, overlap_size |-> 0, preserve_sentences |-> TRUE],
     [max_chunk_size |-> 12, overlap_size |-> 0, preserve_sentences |-> FALSE],
     [max_chunk_size |-> 14, overlap_size |-> 3, preserve_sentences |-> TRUE]}

\* a call of find_relevant_chunks(text, query, max_chunks)
CallFindRelevant(t, texts, queries, ks) ==
    /\ th[t].pc = "idle"
    /\ \E text \in texts, query \in queries, k \in ks :
          Upd(t, [th[t] EXCEPT !.pc = "doc_entry",
                               !.op = "find_relevant_chunks",
                               !.text = text, !.query = query,
                               !.max_chunks = k])
    /\ UNCHANGED <<self, config>>

InitRelevance == InitWith(RelConfigs)

NextRelevance ==
    \/ CallFindRelevant(1, RelTexts, RelQueries, 0..MaxK)
    \/ ChunkSteps(1)
    \/ RelSteps(1)

SpecRelevance == InitRelevance /\ [][NextRelevance]_vars

(***************************************************************************)
(* Two threads that share the chunker.                                     *)
(***************************************************************************)

\* a call of chunk_for_summarization(text, target_chunks)
CallSummarize(t, texts, targets) ==
    /\ th[t].pc = "idle"
    /\ \E text \in texts, target \in targets :
          Upd(t, [th[t] EXCEPT !.pc = "summ_entry",
                               !.op = "chunk_for_summarization",
                               !.text = text, !.target_chunks = target])
    /\ UNCHANGED <<self, config>>

ConcTexts ==
    {<<"a", ".", " ", "a", ".">>,
     <<"a", " ", " ", "a", " ", " ", "a">>,
     <<"a">>}

ConcQueries == {<<"a", "a", "a">>}

ConcConfigs == Configs({2, 3}, {0, 1}, BOOLEAN)

InitConc == InitWith(ConcConfigs)

NextConc ==
    \E t \in Threads :
        \/ CallChunkDocument(t, ConcTexts)
        \/ CallSummarize(t, ConcTexts, 1..MaxTarget)
        \/ CallFindRelevant(t, ConcTexts, ConcQueries, {1})
        \/ ChunkSteps(t)
        \/ RelSteps(t)
        \/ SummSteps(t)

SpecConc == InitConc /\ [][NextConc]_vars

(***************************************************************************)
(* One caller of chunk_for_summarization, with documents longer than the   *)
(* smallest temporary chunk size.                                          *)
(***************************************************************************)

\* n times the character c
Run(c, n) == [j \in 1..n |-> c]

\* "a"
PieceWord == <<"a">>

\* a sentence of more than half of MinSummaryChunkSize characters, and the
\* space after it
PieceSentence == Run("a", MinSummaryChunkSize \div 2 + 100) \o <<".", " ">>

\* whitespace as wide as a window of MinSummaryChunkSize characters
PieceGap == Run(" ", MinSummaryChunkSize)

SummPieces == {PieceWord, PieceSentence, PieceGap}

\* the documents made of up to MaxPieces pieces
SummTexts ==
    {Join(ps, <<>>) : ps \in UNION {[1..n -> SummPieces] : n \in 0..MaxPieces}}

SummConfigs ==
    Configs({MaxChunkSize, 2 * MinSummaryChunkSize}, {0, MaxOverlap}, BOOLEAN)

InitSummarize == InitWith(SummConfigs)

NextSummarize ==
    \/ CallSummarize(1, SummTexts, 1..MaxTarget)
    \/ ChunkSteps(1)
    \/ SummSteps(1)

SpecSummarize == InitSummarize /\ [][NextSummarize]_vars


(***************************************************************************)
(* A caller of the keyword retriever.                                      *)
(***************************************************************************)

\* the rows the table CPC can hold
RecJurisdiction ==
    [section |-> <<"9">>,
     title |-> <<"J", "u", "r", "i", "s", "d", "i", "c", "t", "i", "o", "n", " ", "o", "f", " ", "c", "o", "u", "r", "t", "s">>,
     description |-> <<"W", "h", "e", "r", "e", " ", "a", " ", "c", "i", "v", "i", "l", " ", "s", "u", "i", "t", " ", "i", "s", " ", "t", "r", "i", "e", "d">>]

RecCourt ==
    [section |-> <<"1", "0">>,
     title |-> <<"C", "o", "u", "r", "t">>,
     description |-> <<"s", "t", "a", "y">>]

RecSuit ==
    [section |-> <<"1", "1">>,
     title |-> <<"S", "u", "i", "t">>,
     description |-> <<"E", "v", "e", "r", "y", " ", "s", "u", "i", "t">>]

RecAppeal ==
    [section |-> <<"1", "2">>,
     title |-> <<"A", "p", "p", "e", "a", "l">>,
     description |-> <<"n", "o", "n", "e">>]

RecordPool == {RecJurisdiction, RecCourt, RecSuit, RecAppeal}

\* tables of up to MaxRows different rows, in every storage order
Tables ==
    {table \in UNION {[1..n -> RecordPool] : n \in 0..MaxRows} :
        \A i, j \in 1..Len(table) : table[i] = table[j] => i = j}

Failures == {"nothing", "connect", "execute", "fetch"}

Stores == [table : Tables, fails : Failures]

\* line 92: the query of the module's demonstration
QDemo ==
    <<"c", "o", "u", "r", "t", " ", "j", "u", "r", "i", "s", "d", "i", "c", "t", "i", "o", "n", " ", "c", "i", "v", "i", "l", " ", "s", "u", "i", "t">>

QStopWords ==
    <<"w", "h", "a", "t", " ", "i", "s", " ", "t", "h", "e">>

QEmpty == <<>>

QShortWords ==
    <<"o", "f", " ", "i", "t", " ", "t", "o">>

QCourt ==
    <<"C", "o", "u", "r", "t", " ", "o", "f">>

QCourtSuit ==
    <<"c", "o", "u", "r", "t", " ", "s", "u", "i", "t">>

QCourtCourtSuit ==
    <<"c", "o", "u", "r", "t", " ", "c", "o", "u", "r", "t", " ", "s", "u", "i", "t">>

QWildcard ==
    <<"c", "_", "u", "r", "t">>

RtQueries ==
    {QDemo, QStopWords, QEmpty, QShortWords, QCourt, QCourtSuit,
     QCourtCourtSuit, QWildcard}

\* a call of get_relevant_constitutional_articles(query, db_path, top_k)
CallRetrieve(t, queries, stores, ks) ==
    /\ th[t].pc = "idle"
    /\ \E query \in queries, store \in stores, k \in ks :
          Upd(t, [th[t] EXCEPT !.pc = "rt_connect",
                               !.op = "get_relevant_constitutional_articles",
                               !.query = query, !.db = store, !.top_k = k])
    /\ UNCHANGED <<self, config>>

\* lines 8-10: the chunker with its default arguments, which the retriever
\* does not use
DefaultConfig ==
    [max_chunk_size |-> 3000, overlap_size |-> 200, preserve_sentences |-> TRUE]

InitRetriever == InitWith({DefaultConfig})

NextRetriever ==
    \/ CallRetrieve(1, RtQueries, Stores, 0..MaxTopK)
    \/ RtSteps(1)

SpecRetriever == InitRetriever /\ [][NextRetriever]_vars

(***************************************************************************)
(* The chunk lists of the metadata specification.                          *)
(***************************************************************************)
MetaAlphabet == {"a", " ", ".", "!"}

\* every chunk of up to MaxLen characters over MetaAlphabet
MetaChunks == UNION {[1..n -> MetaAlphabet] : n \in 0..MaxLen}

\* "a? a"
ChunkQuestion == <<"a", "?", " ", "a">>

\* "a.a"
ChunkDotted == <<"a", ".", "a">>

\* a chunk longer than a preview
ChunkLong == [j \in 1..(PreviewLength + 1) |-> IF j % 7 = 0 THEN " " ELSE "a"]

MetaSpecials == {ChunkQuestion, ChunkDotted, ChunkLong}

\* lists of one chunk, and lists of up to three of the special chunks
MetaLists ==
    {<<c>> : c \in MetaChunks}
        \cup UNION {[1..n -> MetaSpecials] : n \in 0..3}

\* a call of get_chunk_metadata(chunks)
CallMetadata(t, lists) ==
    /\ th[t].pc = "idle"
    /\ \E chunks \in lists :
          Upd(t, [th[t] EXCEPT !.pc = "meta_loop", !.op = "get_chunk_metadata",
                               !.chunks = chunks, !.i = 0, !.metadata = <<>>])
    /\ UNCHANGED <<self, config>>

InitMetadata == InitWith({DefaultConfig})

NextMetadata ==
    \/ CallMetadata(1, MetaLists)
    \/ MetaSteps(1)

SpecMetadata == InitMetadata /\ [][NextMetadata]_vars

(***************************************************************************)
(* Properties of chunk_document.                                           *)
(***************************************************************************)
Returned(t, op) == th[t].pc = "done" /\ th[t].op = op

NonWhitespace(s) == SelectSeq(s, LAMBDA c : ~IsSpace(c))

\* text, read from 1-based position pos, is the chunks in order with nothing but
\* whitespace before, between and after them
RECURSIVE ReassemblesFrom(_, _, _)
ReassemblesFrom(text, chunks, pos) ==
    LET p == RunEnd(text, pos) IN
    IF chunks = <<>> THEN p = Len(text) + 1
    ELSE /\ SubSeq(text, p, p + Len(chunks[1]) - 1) = chunks[1]
         /\ p + Len(chunks[1]) - 1 <= Len(text)
         /\ ReassemblesFrom(text, Tail(chunks), p + Len(chunks[1]))

Reassembles(text, chunks) == ReassemblesFrom(text, StripNonEmpty(chunks), 1)

\* the text with every whitespace run that follows a sentence terminator
\* replaced by one space, and trimmed
SentenceNormalised(text) == Join(StripNonEmpty(SplitSentences(text)), <<" ">>)

\* C1: every chunk returned by chunk_document is at most max_chunk_size long,
\* in both modes and for every overlap_size
C1_BoundInvariant ==
    \A t \in Threads :
        Returned(t, "chunk_document") =>
            \A i \in 1..Len(th[t].result) :
                Len(th[t].result[i]) <= config.max_chunk_size

\* C2 as stated: with overlap_size = 0 the text is the returned chunks in order
\* with whitespace only at the chunk boundaries (whitespace inside a chunk is the
\* text's own)
C2_LosslessAsStated ==
    \A t \in Threads :
        (Returned(t, "chunk_document") /\ config.overlap_size = 0) =>
            Reassembles(th[t].text, th[t].result)

\* C2 as amended: with overlap_size = 0 the joined chunks hold the text's
\* non-whitespace characters, all of them, once and in order; on the fast path
\* and in character mode the text is the chunks with whitespace only at the
\* chunk boundaries; in sentence mode the same holds of the text with the
\* whitespace runs after sentence terminators collapsed to one space
C2_Lossless ==
    \A t \in Threads :
        (Returned(t, "chunk_document") /\ config.overlap_size = 0) =>
            /\ NonWhitespace(recombine_chunks(th[t].result, <<>>))
                   = NonWhitespace(th[t].text)
            /\ (FastPath(th[t].text, config.max_chunk_size)
                    \/ ~config.preserve_sentences) =>
                   Reassembles(th[t].text, th[t].result)
            /\ (~FastPath(th[t].text, config.max_chunk_size)
                    /\ config.preserve_sentences) =>
                   Reassembles(SentenceNormalised(th[t].text), th[t].result)

\* C2's case: sentence mode without overlap has put two sentences, more than one
\* whitespace character apart in the text, into one chunk
C2_Witness ==
    /\ Returned(1, "chunk_document")
    /\ config.overlap_size = 0
    /\ config.preserve_sentences
    /\ Len(th[1].result) >= 2
    /\ ~Reassembles(th[1].text, th[1].result)

\* C3: a text no longer than max_chunk_size comes back as the one chunk [text],
\* untrimmed, whatever overlap_size and preserve_sentences are
C3_SmallInput ==
    \A t \in Threads :
        (Returned(t, "chunk_document")
            /\ Len(th[t].text) <= config.max_chunk_size) =>
            th[t].result = <<th[t].text>>

\* C3's case: a short text with whitespace at an end has been returned as it is,
\* under a positive overlap_size
C3_Witness ==
    /\ Returned(1, "chunk_document")
    /\ Len(th[1].text) <= config.max_chunk_size
    /\ Strip(th[1].text) # th[1].text
    /\ Strip(th[1].text) # <<>>
    /\ config.overlap_size > 0
    /\ th[1].result = <<th[1].text>>

\* an iteration of the window loop of thread t
CharIterates(t) ==
    /\ th[t].pc = "char_loop"
    /\ th'[t].pc = "char_loop"
    /\ th'[t].iters = th[t].iters + 1

\* C4: every iteration of the character window loop moves start forward, and the
\* loop does at most len(text) iterations
C4_WindowLoopTerminates ==
    [][\A t \in Threads :
          CharIterates(t) =>
              /\ th'[t].start > th[t].start
              /\ th'[t].iters <= Len(th[t].ctext)]_vars

\* C4's case: overlap_size >= max_chunk_size, and the loop has advanced by one
\* character in each of three iterations and has ended
C4_Witness ==
    /\ Returned(1, "chunk_document")
    /\ ~config.preserve_sentences
    /\ config.overlap_size >= config.max_chunk_size
    /\ th[1].iters >= 3
    /\ th[1].start = th[1].iters
    /\ th[1].start >= Len(th[1].ctext)

(***************************************************************************)
(* Properties of find_relevant_chunks.                                     *)
(***************************************************************************)

\* a is b with some elements left out
RECURSIVE IsSubsequence(_, _)
IsSubsequence(a, b) ==
    IF a = <<>> THEN TRUE
    ELSE IF b = <<>> THEN FALSE
    ELSE IF Head(a) = Head(b) THEN IsSubsequence(Tail(a), Tail(b))
    ELSE IsSubsequence(a, Tail(b))

\* the run of a method alone leaves every thread's view of the chunker as
\* constructed: the chunks of the text of thread t
DocumentChunks(t) == chunk_document(th[t].text, config)

\* C6: the chunks find_relevant_chunks returns are chunks of the document, each
\* unchanged, at strictly increasing chunk indices
C6_OrderPreserved ==
    \A t \in Threads :
        Returned(t, "find_relevant_chunks") =>
            /\ IsSubsequence(th[t].result, DocumentChunks(t))
            /\ \A j \in 1..Len(th[t].selected) :
                  /\ th[t].result[j] = DocumentChunks(t)[th[t].selected[j][2] + 1]
                  /\ j > 1 => th[t].selected[j - 1][2] < th[t].selected[j][2]

\* C6's case: the chunks were ranked, and the best chunk is not the first in
\* the document, yet the result is in document order
C6_Witness ==
    /\ Returned(1, "find_relevant_chunks")
    /\ Len(th[1].selected) >= 2
    /\ RankByScore(th[1].chunk_scores)[1][2] > th[1].selected[1][2]
    /\ RatLess(th[1].selected[1][1], th[1].selected[2][1])

\* C7: at most max_chunks chunks come back: all n when n <= max_chunks, exactly
\* max_chunks when n > max_chunks
C7_TopKCap ==
    \A t \in Threads :
        Returned(t, "find_relevant_chunks") =>
            LET n == Len(DocumentChunks(t))
                k == th[t].max_chunks
            IN  /\ Len(th[t].result) <= k
                /\ n <= k => th[t].result = DocumentChunks(t)
                /\ n > k => Len(th[t].result) = k

\* C7's case: three or more chunks, of which two were asked for and returned
C7_Witness ==
    /\ Returned(1, "find_relevant_chunks")
    /\ Len(th[1].chunks) >= 3
    /\ th[1].max_chunks = 2
    /\ Len(th[1].result) = 2

\* the indices (from 0) of the chunks selected by thread t
SelectedIndices(t) == {th[t].selected[j][2] : j \in 1..Len(th[t].selected)}

\* the score given to the chunk of index i (from 0)
ScoreOf(t, i) == th[t].chunk_scores[i + 1][1]

\* C8: with more than max_chunks chunks, the selected chunks are the first
\* max_chunks in the order (score descending, index ascending)
C8_TopByScoreThenIndex ==
    \A t \in Threads :
        (Returned(t, "find_relevant_chunks")
            /\ Len(th[t].chunks) > th[t].max_chunks) =>
            /\ Cardinality(SelectedIndices(t)) = th[t].max_chunks
            /\ \A i \in SelectedIndices(t) :
                 \A j \in (0..(Len(th[t].chunks) - 1)) \ SelectedIndices(t) :
                    /\ ~RatLess(ScoreOf(t, i), ScoreOf(t, j))
                    /\ RatEq(ScoreOf(t, i), ScoreOf(t, j)) => i < j

\* C8's case, the example: chunks "apple banana", "cherry date", "apple cherry",
\* query "apple cherry", max_chunks 2; chunks 0 and 1 tie and 0 and 2 are selected
C8_Witness ==
    /\ Returned(1, "find_relevant_chunks")
    /\ th[1].query = QAppleCherry
    /\ th[1].max_chunks = 2
    /\ th[1].chunks = <<SubSeq(AppleBanana, 1, 12), SubSeq(CherryDate, 1, 11),
                        SubSeq(AppleCherry, 1, 12)>>
    /\ RatEq(ScoreOf(1, 0), ScoreOf(1, 1))
    /\ SelectedIndices(1) = {0, 2}
    /\ th[1].result = <<SubSeq(AppleBanana, 1, 12), SubSeq(AppleCherry, 1, 12)>>

\* thread t has scored its chunks
Scored(t) == th[t].op = "find_relevant_chunks" /\ th[t].chunk_scores # <<>>

\* |query_words & chunk_words| / max(|query_words|, 1)
WordOverlap(query, chunk) ==
    Rat(Cardinality(QueryWords(query) \cap ChunkWords(chunk)),
        IF QueryWords(query) = {} THEN 1 ELSE Cardinality(QueryWords(query)))

\* the whole lower-cased query occurs in the lower-cased chunk
WholeQueryIn(query, chunk) == Contains(Lower(chunk), Lower(query))

\* C9: the score is the word overlap, plus 0.5 exactly when the trimmed query
\* has more than 10 characters and the whole query occurs in the chunk; nothing
\* is added for a trimmed query of 10 characters or fewer; never negative
C9_Score ==
    \A t \in Threads :
        Scored(t) =>
            \A j \in 1..Len(th[t].chunk_scores) :
                LET score == th[t].chunk_scores[j][1]
                    chunk == th[t].chunks[j]
                    query == th[t].query
                    base == WordOverlap(query, chunk)
                IN  /\ th[t].chunk_scores[j][2] = j - 1
                    /\ th[t].chunk_scores[j][3] = chunk
                    /\ RatEq(score, RatAdd(base, Rat(5, 10)))
                         <=> (Len(Strip(query)) > 10 /\ WholeQueryIn(query, chunk))
                    /\ Len(Strip(query)) <= 10 => RatEq(score, base)
                    /\ ~RatLess(score, base)
                    /\ ~RatLess(score, Rat(0, 1))

\* C9's case: a chunk that holds some but not all query words as words and the
\* whole query as a substring, its score the word overlap plus 0.5, beside a
\* chunk that gets no bonus
C9_Witness ==
    /\ Scored(1)
    /\ Len(Strip(th[1].query)) > 10
    /\ \E j, k \in 1..Len(th[1].chunk_scores) :
          /\ WholeQueryIn(th[1].query, th[1].chunks[j])
          /\ RatLess(Rat(0, 1), WordOverlap(th[1].query, th[1].chunks[j]))
          /\ RatLess(WordOverlap(th[1].query, th[1].chunks[j]), Rat(1, 1))
          /\ RatEq(th[1].chunk_scores[j][1],
                   RatAdd(WordOverlap(th[1].query, th[1].chunks[j]), Rat(5, 10)))
          /\ RatEq(th[1].chunk_scores[k][1],
                   WordOverlap(th[1].query, th[1].chunks[k]))

\* the period-delimited parts of the lower-cased query, longer than 5 characters
\* when trimmed, that occur in the lower-cased chunk (positions in the query)
MatchingSubPhrases(query, chunk) ==
    LET parts == SplitOn(Lower(query), ".")
    IN  {i \in 1..Len(parts) :
            Len(Strip(parts[i])) > 5 /\ Contains(Lower(chunk), parts[i])}

\* the sub-phrase rule applies: a long query that the chunk does not hold whole
SubPhraseCase(query, chunk) ==
    Len(Strip(query)) > 10 /\ ~WholeQueryIn(query, chunk)

ResultAlone(t) ==
    IF th[t].op = "chunk_document"
    THEN chunk_document(th[t].text, config)
    ELSE IF th[t].op = "chunk_for_summarization"
    THEN chunk_for_summarization(th[t].text, th[t].target_chunks, config)
    ELSE find_relevant_chunks(th[t].text, th[t].query, th[t].max_chunks, config)

\* C5: calls that run concurrently on one chunker each return what they return
\* alone, and once all have returned max_chunk_size is as configured
C5_CallsIsolated ==
    /\ \A t \in Threads : th[t].pc = "done" => th[t].result = ResultAlone(t)
    /\ (\A t \in Threads : th[t].pc = "done") =>
           self.max_chunk_size = config.max_chunk_size


(***************************************************************************)
(* Properties of the overlap pass.                                         *)
(***************************************************************************)

\* p is the end of s
IsSuffix(p, s) ==
    Len(p) <= Len(s) /\ SubSeq(s, Len(s) - Len(p) + 1, Len(s)) = p

\* thread t has returned from chunk_document through _add_overlap
OverlapPass(t) ==
    /\ Returned(t, "chunk_document")
    /\ config.preserve_sentences
    /\ config.overlap_size > 0
    /\ ~FastPath(th[t].text, config.max_chunk_size)

\* what was put before chunk i (from 1) and its separating space
OverlapPrefix(t, i) ==
    SubSeq(th[t].result[i], 1,
           Len(th[t].result[i]) - Len(th[t].unoverlapped[i]) - 1)

\* C11: the overlap pass keeps the first chunk and the number of chunks, and
\* makes every later chunk p + " " + c, with c the chunk before the pass and p
\* a non-empty end, of at most overlap_size characters, of the chunk that came
\* before c before the pass
C11_OverlapAdditive ==
    \A t \in Threads :
        OverlapPass(t) =>
            LET c == th[t].unoverlapped
                o == th[t].result
            IN  /\ Len(o) = Len(c)
                /\ c # <<>> => o[1] = c[1]
                /\ \A i \in 2..Len(c) :
                      /\ Len(o[i]) >= Len(c[i]) + 2
                      /\ o[i] = OverlapPrefix(t, i) \o <<" ">> \o c[i]
                      /\ IsSuffix(OverlapPrefix(t, i), c[i - 1])
                      /\ Len(OverlapPrefix(t, i)) <= config.overlap_size

\* C11's case: a chunk got a part, not the whole, of the chunk before it
C11_Witness ==
    /\ OverlapPass(1)
    /\ \E i \in 2..Len(th[1].result) :
          /\ Len(OverlapPrefix(1, i)) < Len(th[1].unoverlapped[i - 1])
          /\ th[1].result[i] # th[1].unoverlapped[i]

\* C12: what is put before a chunk is the whole chunk before it, or follows a
\* space in that chunk
C12_OverlapAtWordBoundary ==
    \A t \in Threads :
        OverlapPass(t) =>
            \A i \in 2..Len(th[t].result) :
                LET prev == th[t].unoverlapped[i - 1]
                    p == OverlapPrefix(t, i)
                IN  \/ p = prev
                    \/ prev[Len(prev) - Len(p)] = " "


(***************************************************************************)
(* Properties of estimate_processing_cost.                                 *)
(***************************************************************************)

\* floor(len(chunk) / 4), summed over the chunks from the i-th on
RECURSIVE FloorQuarterSum(_, _)
FloorQuarterSum(chunks, i) ==
    IF i > Len(chunks) THEN 0
    ELSE (CHOOSE q \in 0..Len(chunks[i]) :
              4 * q <= Len(chunks[i]) /\ Len(chunks[i]) < 4 * (q + 1))
         + FloorQuarterSum(chunks, i + 1)

\* C20: the estimate counts the chunks of chunk_document(text), sums the
\* floor of a quarter of each chunk's length, gives two seconds a chunk and
\* lists the chunk lengths in chunk order
C20_CostEstimate ==
    \A t \in Threads :
        Returned(t, "estimate_processing_cost") =>
            LET chunks == DocumentChunks(t)
                cost == th[t].cost
            IN  /\ cost.total_chunks = Len(chunks)
                /\ cost.estimated_tokens = FloorQuarterSum(chunks, 1)
                /\ cost.processing_time_estimate_seconds = 2 * cost.total_chunks
                /\ Len(cost.chunk_sizes) = Len(chunks)
                /\ \A i \in 1..Len(chunks) : cost.chunk_sizes[i] = Len(chunks[i])

\* C20's case: two chunks whose lengths together hold more quarters than the
\* chunks one by one, and a chunk that counts for a token
C20_Witness ==
    /\ Returned(1, "estimate_processing_cost")
    /\ th[1].cost.total_chunks = 2
    /\ th[1].cost.estimated_tokens = 1
    /\ (th[1].cost.chunk_sizes[1] + th[1].cost.chunk_sizes[2]) \div 4 = 2


(***************************************************************************)
(* Properties of the keyword retriever.                                    *)
(***************************************************************************)

RtReturned(t) == Returned(t, "get_relevant_constitutional_articles")

\* the statement of thread t was executed and its rows were read
RtAnswered(t) ==
    /\ th[t].op = "get_relevant_constitutional_articles"
    /\ th[t].pc \in {"rt_sections", "done"}
    /\ th[t].db.fails = "nothing"
    /\ th[t].keywords # <<>>

\* the keyword, lower-cased already, is in the field as it is written, the
\* case of the field's letters apart
Occurs(keyword, field) == Contains(Lower(field), keyword)

\* the keywords of the query that occur in the row's title or description
KeywordsIn(keywords, row) ==
    {kw \in ToSet(keywords) :
        Occurs(kw, row.title) \/ Occurs(kw, row.description)}

\* the positions in the table of the rows that were returned
ReturnedPositions(t) ==
    {th[t].results[j].pos : j \in 1..Len(th[t].results)}

\* C13: a query with nothing but stop-words and words of at most 2 characters
\* gets an empty list and no exception, whatever the store
C13_NoKeywordsEmpty ==
    \A t \in Threads :
        (RtReturned(t)
            /\ \A w \in ToSet(SplitWords(Lower(th[t].query))) :
                  w \in stop_words \/ Len(w) <= 2) =>
            th[t].result = <<>> /\ ~th[t].raised

\* C13's case: "of it to" on a working store with rows that contain "it"
C13_Witness ==
    /\ RtReturned(1)
    /\ th[1].query = QShortWords
    /\ th[1].db.fails = "nothing"
    /\ \E i \in 1..Len(th[1].db.table) :
          Occurs(<<"i", "t">>, th[1].db.table[i].description)
    /\ th[1].result = <<>>

\* C14: with top_k no less than the number of rows, a row is returned exactly
\* when some keyword occurs, as it is written, in its title or description
C14_LiteralMatch ==
    \A t \in Threads :
        (RtAnswered(t) /\ th[t].top_k >= Len(th[t].db.table)) =>
            \A i \in 1..Len(th[t].db.table) :
                i \in ReturnedPositions(t)
                    <=> KeywordsIn(th[t].keywords, th[t].db.table[i]) # {}

\* C15: a returned row's score is the number of pairs of a keyword of the set
\* of keywords and a field, title or description, in which it occurs
C15_ScoreCountsPairs ==
    \A t \in Threads :
        RtAnswered(t) =>
            \A j \in 1..Len(th[t].results) :
                th[t].results[j].score =
                    Cardinality({kw \in ToSet(th[t].keywords) :
                                    Occurs(kw, th[t].results[j].title)})
                    + Cardinality({kw \in ToSet(th[t].keywords) :
                                    Occurs(kw, th[t].results[j].description)})

C17_ErrorsCaught ==
    \A t \in Threads :
        /\ ~th[t].raised
        /\ (RtReturned(t) /\ th[t].db.fails # "nothing") => th[t].result = <<>>

\* C17's case: reading the rows fails, for a query that matches rows
C17_Witness ==
    /\ RtReturned(1)
    /\ th[1].db.fails = "fetch"
    /\ SelectedRows(th[1].db.table, th[1].score_clauses, th[1].conditions,
                    th[1].params) # {}
    /\ th[1].top_k > 0
    /\ th[1].result = <<>>

\* the record of C18: title "Jurisdiction of courts", "civil suit" described
IsJurisdictionRecord(row) ==
    /\ row.title = RecJurisdiction.title
    /\ Contains(row.description, <<"c", "i", "v", "i", "l", " ", "s", "u", "i", "t">>)

\* C18: for the query "court jurisdiction civil suit" that record matches,
\* scores higher than every row with only one of the keywords, and comes
\* before every such row that is returned
C18_JurisdictionFirst ==
    \A t \in Threads :
        (RtAnswered(t) /\ th[t].query = QDemo) =>
            \A i \in 1..Len(th[t].db.table) :
                IsJurisdictionRecord(th[t].db.table[i]) =>
                    /\ RowMatches(th[t].db.table[i], th[t].score_clauses,
                                  th[t].conditions, th[t].params)
                    /\ \A j \in 1..Len(th[t].db.table) :
                          Cardinality(KeywordsIn(th[t].keywords,
                                                 th[t].db.table[j])) = 1 =>
                              /\ RowScore(th[t].db.table[i],
                                          th[t].score_clauses, th[t].params)
                                   > RowScore(th[t].db.table[j],
                                              th[t].score_clauses, th[t].params)
                              /\ \A k \in 1..Len(th[t].results) :
                                    th[t].results[k].pos = j =>
                                        \E h \in 1..(k - 1) :
                                            th[t].results[h].pos = i

\* C18's case: the record is stored after a row with one keyword in both
\* fields and a row with one keyword in one field, and is returned first
C18_Witness ==
    /\ RtReturned(1)
    /\ th[1].query = QDemo
    /\ th[1].db.table = <<RecSuit, RecCourt, RecJurisdiction>>
    /\ Len(th[1].result) = 3
    /\ th[1].results[1].pos = 3
    /\ th[1].results[1].score = 4
    /\ th[1].results[2].score = 2
    /\ th[1].result[1].metadata.title = RecJurisdiction.title

\* C19: the statement's text is the same for all queries with as many
\* keywords; the keywords and top_k are in the bound parameters
C19_SqlTextByCount ==
    \A t \in Threads :
        th[t].sql_query # "" =>
            /\ \A q \in RtQueries :
                  Len(Keywords(q)) = Len(th[t].keywords) =>
                      SqlQuery(ScoreClauses(Keywords(q)),
                               Conditions(Keywords(q))) = th[t].sql_query
            /\ Len(th[t].params) = 4 * Len(th[t].keywords) + 1
            /\ th[t].params[Len(th[t].params)] = th[t].top_k
            /\ \A i \in 1..(Len(th[t].params) - 1) :
                  \E kw \in ToSet(th[t].keywords) :
                      th[t].params[i] = PatternOf(kw)

\* C19's case: the statement for "c_urt" is the statement for "Court of",
\* the parameters differ
C19_Witness ==
    /\ th[1].sql_query # ""
    /\ th[1].query = QWildcard
    /\ th[1].sql_query = SqlQuery(ScoreClauses(Keywords(QCourt)),
                                  Conditions(Keywords(QCourt)))
    /\ th[1].params[1] # Params(Keywords(QCourt), th[1].top_k)[1]


(***************************************************************************)
(* Further properties of chunk_document.                                   *)
(***************************************************************************)

\* the sentences the for loop of _chunk_by_sentences works on
SentencesOf(text) == StripNonEmpty(SplitSentences(text))

\* chunks, from the j-th on, are runs of the sentences from the i-th on, each
\* run joined by single spaces, all but the last run unable to take the
\* sentence after it
RECURSIVE GreedyRuns(_, _, _, _, _)
GreedyRuns(sentences, i, chunks, j, M) ==
    IF j > Len(chunks) THEN i > Len(sentences)
    ELSE \E k \in i..Len(sentences) :
            /\ chunks[j] = Join(SubSeq(sentences, i, k), <<" ">>)
            /\ k < Len(sentences) =>
                   Len(chunks[j]) + 1 + Len(sentences[k + 1]) > M
            /\ j = Len(chunks) => k = Len(sentences)
            /\ GreedyRuns(sentences, k + 1, chunks, j + 1, M)

\* thread t has chunked, sentence by sentence and without overlap, a text
\* longer than max_chunk_size none of whose sentences is
SentenceRunsCase(t) ==
    /\ Returned(t, "chunk_document")
    /\ config.preserve_sentences
    /\ config.overlap_size = 0
    /\ ~FastPath(th[t].text, config.max_chunk_size)
    /\ \A i \in 1..Len(SentencesOf(th[t].text)) :
          Len(SentencesOf(th[t].text)[i]) <= config.max_chunk_size

\* C23: such a text's chunks are runs of consecutive sentences joined by single
\* spaces, cover the sentences in order, and all but the last are maximal
C23_GreedySentenceRuns ==
    \A t \in Threads :
        SentenceRunsCase(t) =>
            GreedyRuns(SentencesOf(th[t].text), 1, th[t].result, 1,
                       config.max_chunk_size)

\* C23's case: three sentences in two chunks, the first chunk of two sentences
C23_Witness ==
    /\ SentenceRunsCase(1)
    /\ Len(SentencesOf(th[1].text)) = 3
    /\ Len(th[1].result) = 2
    /\ th[1].result[1] = Join(SubSeq(SentencesOf(th[1].text), 1, 2), <<" ">>)

\* C26: no chunk of chunk_document is longer than
\* max_chunk_size + overlap_size + 1
C26_BoundWithOverlap ==
    \A t \in Threads :
        Returned(t, "chunk_document") =>
            \A i \in 1..Len(th[t].result) :
                Len(th[t].result[i])
                    <= config.max_chunk_size + config.overlap_size + 1

\* C26's case: a chunk of exactly max_chunk_size + overlap_size + 1 characters
C26_Witness ==
    /\ OverlapPass(1)
    /\ \E i \in 2..Len(th[1].result) :
          /\ Len(th[1].unoverlapped[i]) = config.max_chunk_size
          /\ Len(th[1].result[i])
                = config.max_chunk_size + config.overlap_size + 1

\* C28: chunk_document returns at least one chunk
C28_NonEmptyResult ==
    \A t \in Threads :
        Returned(t, "chunk_document") => th[t].result # <<>>

\* the last space among the last O characters of s, as a position of s, or 0
LastSpaceInTail(s, O) ==
    LET spaces == {i \in (Len(s) - O + 1)..Len(s) : s[i] = " "}
    IN  IF spaces = {} THEN 0 ELSE SetMax(spaces)

\* C30: the overlap taken from a chunk longer than overlap_size holds no
\* space: it is what follows the last space among the chunk's last
\* overlap_size characters, or those characters when none is a space
C30_OverlapIsLastWord ==
    \A t \in Threads :
        OverlapPass(t) =>
            \A i \in 2..Len(th[t].result) :
                LET prev == th[t].unoverlapped[i - 1]
                    p == OverlapPrefix(t, i)
                    O == config.overlap_size
                IN  Len(prev) > O =>
                        /\ \A k \in 1..Len(p) : p[k] # " "
                        /\ p = IF LastSpaceInTail(prev, O) = 0
                               THEN SubSeq(prev, Len(prev) - O + 1, Len(prev))
                               ELSE SubSeq(prev, LastSpaceInTail(prev, O) + 1,
                                           Len(prev))

\* C30's case: the last overlap_size characters of the previous chunk hold a
\* space, and less than overlap_size characters were taken
C30_Witness ==
    /\ OverlapPass(1)
    /\ \E i \in 2..Len(th[1].result) :
          /\ Len(th[1].unoverlapped[i - 1]) > config.overlap_size
          /\ LastSpaceInTail(th[1].unoverlapped[i - 1], config.overlap_size) > 0
          /\ Len(OverlapPrefix(1, i)) < config.overlap_size


(***************************************************************************)
(* Properties of the windows of _chunk_by_characters.                      *)
(***************************************************************************)

\* C22: a window from s that is not the last one ends at the last space p of
\* [s, s + max_chunk_size) if p - s is at least 70% of max_chunk_size, and at
\* s + max_chunk_size otherwise
C22_CutFromSeventyPercent ==
    [][\A t \in Threads :
          (CharIterates(t)
              /\ th[t].start + config.max_chunk_size < Len(th[t].ctext)) =>
              LET s == th[t].start
                  M == config.max_chunk_size
                  p == RFind(th[t].ctext, " ", s, s + M)
              IN  th'[t].end = IF p # -1 /\ 10 * (p - s) >= 7 * M
                               THEN p ELSE s + M]_vars

\* the text positions, from 0, below which the windows made so far reach
Reach(t) == Min(th[t].end, Len(th[t].ctext))

\* C27: in character mode with overlap_size < max_chunk_size every window
\* after the first reaches further into the text than the one before it
C27_WindowsReachFurther ==
    [][\A t \in Threads :
          (CharIterates(t)
              /\ th[t].iters >= 1
              /\ ~config.preserve_sentences
              /\ config.overlap_size < config.max_chunk_size) =>
              Min(th'[t].end, Len(th[t].ctext)) > Reach(t)]_vars


(***************************************************************************)
(* The connection of get_relevant_constitutional_articles.                 *)
(***************************************************************************)

\* C29: when get_relevant_constitutional_articles has returned, the connection
\* it opened, if it opened one, has been closed
C29_ConnectionClosedOnReturn ==
    \A t \in Threads : RtReturned(t) => th[t].conn # "open"


(***************************************************************************)
(* The sentence count of get_chunk_metadata.                               *)
(***************************************************************************)

\* the sentence units of a chunk by the rule of _chunk_by_sentences: the
\* pieces between terminators followed by whitespace that are not blank
BoundaryUnits(chunk) == StripNonEmpty(SplitSentences(chunk))

\* C21: the sentence_count of every chunk is the number of its non-empty
\* sentence units by the boundary rule of _chunk_by_sentences
C21_SentenceCountByBoundaryRule ==
    \A t \in Threads :
        Returned(t, "get_chunk_metadata") =>
            \A j \in 1..Len(th[t].chunks) :
                th[t].metadata[j].sentence_count
                    = Len(BoundaryUnits(th[t].chunks[j]))


(***************************************************************************)
(* chunk_for_summarization run by one caller.                              *)
(***************************************************************************)

\* thread t is at the head of the merge loop and its condition holds
MergeLoopRuns(t) ==
    /\ th[t].pc = "after_doc"
    /\ th[t].op = "chunk_for_summarization"
    /\ TooManyChunks(th[t].chunks, th[t].target_chunks)

\* C24: the merge loop of chunk_for_summarization always exits: whenever its
\* condition holds, the pass it runs leaves fewer chunks than it found (a pass
\* that merges no pair leaves the chunks, and with them the condition, as
\* they were, and the loop runs the same pass again without end)
C24_MergeLoopExits ==
    \A t \in Threads :
        MergeLoopRuns(t) =>
            Len(MergePass(th[t].chunks, self.max_chunk_size))
                < Len(th[t].chunks)

\* C25: when chunk_for_summarization has returned, the chunker's three fields
\* have the values they had before the call
C25_FieldsRestored ==
    \A t \in Threads :
        Returned(t, "chunk_for_summarization") => self = config

\* a call that set a temporary max_chunk_size different from the chunker's
\* own, merged chunks, and has returned with the chunker's own in place
C25_Witness ==
    /\ Returned(1, "chunk_for_summarization")
    /\ Len(th[1].text) > config.max_chunk_size
    /\ TemporaryChunkSize(th[1].estimated_chunk_size) # config.max_chunk_size
    /\ Len(th[1].result)
          < Len(chunk_document(th[1].text,
                               [config EXCEPT !.max_chunk_size =
                                   TemporaryChunkSize(th[1].estimated_chunk_size)]))
    /\ self.max_chunk_size = config.max_chunk_size

=============================================================================
